---- MODULE Spec2Model ----
(***************************************************************************)
(* Budget Daily Tracker (src/src/App.js): the AppProvider state, its       *)
(* hydrate and persist effects, the user operations and the IndexedDB      *)
(* store behind loadState / saveState.                                     *)
(*                                                                         *)
(* One step of the model is one turn of the browser event loop as React    *)
(* sees it: an event handler (or the continuation of the awaited load)     *)
(* with its batched setState calls, the render that follows and the        *)
(* persist effect of that render.                                          *)
(*                                                                         *)
(* JavaScript values are records [kind, v] so that values of different     *)
(* JavaScript types can be compared.  Time is counted in ticks; a day has  *)
(* DayLen ticks and a month MonthDays days.                                *)
(* The clock is read once per session: a session is short against a       *)
(* calendar month, so every dayjs() call of a session sees the same        *)
(* reading.                                                                *)
(***************************************************************************)
EXTENDS Integers, Sequences, FiniteSets, TLC

\* ---------------------------------------------------------------- bounds
MaxOps == 2        \* user operations explored in one session
MaxAmt == 1        \* largest number typed into the amount and balance fields
DayLen == 2        \* ticks per day (tick 0 = start of day, last tick = end of day)
MonthDays == 2     \* days per calendar month

\* ------------------------------------------------------ JavaScript values
Undef == [kind |-> "undef", v |-> 0]
NaNv == [kind |-> "nan", v |-> 0]
StrV == [kind |-> "str", v |-> 0]
Num(n) == [kind |-> "num", v |-> n]

\* Number(x)
ToNumber(x) == IF x.kind = "num" THEN x ELSE NaNv

\* !x for a number or undefined
Falsy(x) == x.kind # "num" \/ x.v = 0

\* -x
Neg(x) == IF x.kind = "num" THEN Num(0 - x.v) ELSE NaNv

\* (mutant) the magnitude is added whatever the sign
PlusMagnitude(b, signed) ==
    IF b.kind = "num" THEN Num(b.v + (IF signed < 0 THEN 0 - signed ELSE signed))
    ELSE NaNv

\* b + signed, for a number signed
Plus(b, signed) == IF b.kind = "num" THEN Num(b.v + signed) ELSE NaNv

\* (mutant) the signed amount is stored
AbsIdentity(n) == n

\* Math.abs
Abs(n) == IF n < 0 THEN 0 - n ELSE n

\* typeof x === "number"
IsNumberType(x) == x.kind \in {"num", "nan"}

\* ------------------------------------------------------------ time (dayjs)
Inst(t) == [valid |-> TRUE, t |-> t]
Invalid == [valid |-> FALSE, t |-> 0]
MonthLen == DayLen * MonthDays
StartOfMonth(t) == (t \div MonthLen) * MonthLen
EndOfMonth(t) == StartOfMonth(t) + MonthLen - 1

defaultPeriod(t) == <<Inst(StartOfMonth(t)), Inst(EndOfMonth(t))>>

\* ISO strings: a well-formed one carries a date and a time of day
Iso(d, r) == [kind |-> "iso", date |-> d, time |-> r]
BadStr == [kind |-> "bad", date |-> 0, time |-> 0]
EmptyStr == [kind |-> "empty", date |-> 0, time |-> 0]

\* dayjs(x).toISOString(); throws a RangeError on an invalid date
toISOString(i) == Iso(i.t \div DayLen, i.t % DayLen)

\* (mutant) the time of day is lost in parsing
dayjsDateOnly(s) == IF s.kind = "iso" THEN Inst(s.date * DayLen) ELSE Invalid

\* dayjs(s) for a string s
dayjs(s) == IF s.kind = "iso" THEN Inst(s.date * DayLen + s.time) ELSE Invalid

\* the period field of a stored record
NoPeriod == [kind |-> "absent", a |-> EmptyStr, b |-> EmptyStr]
ScalarPeriod == [kind |-> "scalar", a |-> EmptyStr, b |-> EmptyStr]
PairPeriod(a, b) == [kind |-> "pair", a |-> a, b |-> b]

toISOPeriod(p) ==
    IF Len(p) # 2 THEN NoPeriod
    ELSE PairPeriod(toISOString(p[1]), toISOString(p[2]))

\* toISOPeriod(p) throws
toISOPeriodThrows(p) == Len(p) = 2 /\ (~p[1].valid \/ ~p[2].valid)

fromISOPeriod(iso, t) ==
    IF iso.kind # "pair" \/ iso.a.kind = "empty" \/ iso.b.kind = "empty"
    THEN defaultPeriod(t)
    ELSE <<dayjs(iso.a), dayjs(iso.b)>>

\* ---------------------------------------------------------- budget engine
StartOfDay(t) == (t \div DayLen) * DayLen
EndOfDay(t) == StartOfDay(t) + DayLen - 1

\* a.diff(b, "day"): the whole days between two instants, truncated toward 0
DiffDays(a, b) ==
    IF a >= b THEN (a - b) \div DayLen ELSE 0 - ((b - a) \div DayLen)

\* (mutant) today is not counted
computeDaysLeftExclusive(p, t) ==
    IF Len(p) # 2 THEN Num(0)
    ELSE IF ~p[1].valid \/ ~p[2].valid THEN NaNv
    ELSE LET today == StartOfDay(t)
             start == StartOfDay(p[1].t)
             end == EndOfDay(p[2].t)
             effectiveStart == IF today > start THEN today ELSE start
         IN  IF end < effectiveStart THEN Num(0)
             ELSE Num(DiffDays(end, effectiveStart))

\* computeDaysLeft(period) when the clock reads t; comparisons with an
\* invalid date are false and its diff is NaN
computeDaysLeft(p, t) ==
    IF Len(p) # 2 THEN Num(0)
    ELSE IF ~p[1].valid \/ ~p[2].valid THEN NaNv
    ELSE LET today == StartOfDay(t)
             start == StartOfDay(p[1].t)
             end == EndOfDay(p[2].t)
             effectiveStart == IF today > start THEN today ELSE start
         IN  IF end < effectiveStart THEN Num(0)
             ELSE Num(DiffDays(end, effectiveStart) + 1)

\* a number with two decimals, counted in hundredths
Hundredths(n) == [kind |-> "num", hundredths |-> n]
NaNLimit == [kind |-> "nan", hundredths |-> 0]

\* (mutant) the quotient is cut after two decimals
toFixed2Truncates(n, d) ==
    LET q == (100 * Abs(n)) \div d IN IF n < 0 THEN 0 - q ELSE q

\* +(n / d).toFixed(2) in hundredths, d > 0: the nearest hundredth to the
\* magnitude, the larger one when two are equally near, then the sign.  The
\* quotient of two whole numbers with d <= 8 is halfway between two
\* hundredths only for d = 8, where the double is exact, so the
\* floating-point result is the exact one.
toFixed2(n, d) ==
    LET q == (200 * Abs(n) + d) \div (2 * d) IN IF n < 0 THEN 0 - q ELSE q

\* daysLeft > 0 ? +(balance / daysLeft).toFixed(2) : 0
dailyLimitOf(b, d) ==
    IF d.kind = "num" /\ d.v > 0
    THEN IF b.kind = "num" THEN Hundredths(toFixed2(b.v, d.v)) ELSE NaNLimit
    ELSE Hundredths(0)

\* ----------------------------------------------------------- transactions
\* {id, dateISO, type, amount, reason}; a string is its sequence of characters
Txn(id, dateISO, type, amount, reason) ==
    [id |-> id, dateISO |-> dateISO, type |-> type, amount |-> amount,
     reason |-> reason]

\* `${Date.now()}-${Math.random()...}`: the clock reading and a part that
\* differs from call to call (here the count of operations run)
newTxnId(t, n) == <<t, n>>

RECURSIVE TrimStart(_)
TrimStart(cs) ==
    IF cs # <<>> /\ Head(cs) = " " THEN TrimStart(Tail(cs)) ELSE cs
RECURSIVE TrimEnd(_)
TrimEnd(cs) ==
    IF cs # <<>> /\ cs[Len(cs)] = " " THEN TrimEnd(SubSeq(cs, 1, Len(cs) - 1))
    ELSE cs

\* String.prototype.trim
Trim(cs) == TrimEnd(TrimStart(cs))
ArrayOf(items) == [kind |-> "array", items |-> items]
NotArray == [kind |-> "other", items |-> <<>>]

VARIABLES
    balance,        \* AppProvider state: the balance
    transactions,   \* AppProvider state: the log, most recent first
    period,         \* AppProvider state: the accounting period
    hydrated,       \* AppProvider state: the load has ended
    crashed,        \* an effect threw and React unmounted the tree
    store,          \* the object store: <<>> or <<record under id "state">>
    pending,        \* the saveState calls in flight, oldest first
    now,            \* the clock reading of this session
    lastOp,         \* the last operation run, with its argument
    ops,            \* the number of user operations run
    store0,         \* the store as the session found it
    saveFailed      \* a saveState of this session was rejected

vars == <<balance, transactions, period, hydrated, crashed,
          store, pending, now, lastOp, ops, store0, saveFailed>>

\* ------------------------------------------------------------------ store
\* (mutant) the effect saves the state of the previous render
SnapshotStale(b, t, p) ==
    [balance |-> balance, transactions |-> ArrayOf(transactions),
     period |-> toISOPeriod(period)]

\* the record saveState puts under id "state" (the persist effect's `state`)
SnapshotOf(b, t, p) ==
    [balance |-> b, transactions |-> ArrayOf(t), period |-> toISOPeriod(p)]

\* what the store may hold when the page is opened: nothing, a record this
\* program wrote, or a record with damaged fields
BaseBalance == Num(MaxAmt + 1)
BaseTransactions ==
    ArrayOf(<<Txn(newTxnId(0, 0), Iso(0, 0), "sub", 1, <<>>)>>)
BasePeriod == PairPeriod(Iso(0, 0), Iso(MonthDays, DayLen - 1))
Snapshot(b, t, p) == [balance |-> b, transactions |-> t, period |-> p]
InitSnapshots ==
    {Snapshot(BaseBalance, BaseTransactions, BasePeriod),
     Snapshot(BaseBalance, BaseTransactions, PairPeriod(BadStr, BadStr)),
     Snapshot(BaseBalance, BaseTransactions, PairPeriod(Iso(0, 0), EmptyStr)),
     Snapshot(BaseBalance, BaseTransactions, ScalarPeriod),
     Snapshot(StrV, NotArray, NoPeriod),
     Snapshot(BaseBalance,
              ArrayOf(<<Txn(newTxnId(0, 0), Iso(0, 0), "other", 0, <<>>)>>),
              BasePeriod)}
InitStores == {<<>>} \cup {<<s>> : s \in InitSnapshots}

\* --------------------------------------------------------------- inputs
\* the clock readings explored: the first tick of month 0, a later tick of month 1
InitTimes == {0, MonthLen + 1}
AmountInputs == {Undef} \cup {Num(n) : n \in 0..MaxAmt}
\* the reason field: left empty, or a word with blanks around it
ReasonInputs == {<<>>, <<" ", "x", " ">>}
BalanceInputs == {Undef} \cup {Num(n) : n \in 0..MaxAmt}
\* RangePicker values: cleared, one day, a range that runs into the next month
RangeInputs == {<<>>, <<Inst(0), Inst(0)>>, <<Inst(DayLen), Inst(MonthLen)>>}

Op(name, arg) == [op |-> name, arg |-> arg]

\* the memoised values of a render
daysLeft == computeDaysLeft(period, now)
dailyLimit == dailyLimitOf(balance, daysLeft)

Init ==
    /\ now \in InitTimes
    /\ balance = Undef
    /\ transactions = <<>>
    /\ period = defaultPeriod(now)
    /\ hydrated = FALSE
    /\ crashed = FALSE
    /\ store \in InitStores
    /\ store0 = store
    /\ pending = <<>>
    /\ lastOp = Op("mount", Undef)
    /\ ops = 0
    /\ saveFailed = FALSE

\* ------------------------------------------------------- persist effect
\* (mutant) the effect without its guard
PersistArmedAlways(h) == TRUE

\* line 148: the effect body goes past its guard
PersistArmed(h) == h

\* the effect's dependency list [balance, transactions, period, hydrated]:
\* Object.is on the balance and the flag, identity on the two arrays
DepsChanged(b, h, newTransactions, newPeriod) ==
    b # balance \/ h # hydrated \/ newTransactions \/ newPeriod

\* the render that follows a batch of setState calls, and its persist effect
Render(b, t, p, h, newTransactions, newPeriod) ==
    /\ balance' = b
    /\ transactions' = t
    /\ period' = p
    /\ hydrated' = h
    /\ IF DepsChanged(b, h, newTransactions, newPeriod) /\ PersistArmed(h)
       THEN IF toISOPeriodThrows(p)
            THEN \* the RangeError leaves the effect: React unmounts the tree
                 crashed' = TRUE /\ pending' = pending
            ELSE /\ crashed' = crashed
                 /\ pending' = Append(pending, SnapshotOf(b, t, p))
       ELSE UNCHANGED <<crashed, pending>>

\* -------------------------------------------------------- hydrate effect
\* the three conditional setState calls; cur is the value the state holds
HydratedBalance(saved, cur) ==
    IF IsNumberType(saved.balance) THEN saved.balance ELSE cur
HydratedTransactions(saved, cur) ==
    IF saved.transactions.kind = "array" THEN saved.transactions.items ELSE cur
HydratedPeriod(saved, cur, t) ==
    IF saved.period.kind # "absent" THEN fromISOPeriod(saved.period, t) ELSE cur

\* loadState resolved with the stored record
LoadSnapshot ==
    /\ ~hydrated /\ store # <<>>
    /\ Render(HydratedBalance(store[1], balance),
              HydratedTransactions(store[1], transactions),
              HydratedPeriod(store[1], period, now), TRUE,
              store[1].transactions.kind = "array",
              store[1].period.kind # "absent")
    /\ lastOp' = Op("hydrate", Undef)
    /\ UNCHANGED <<store, now, ops, store0, saveFailed>>

\* (mutant) setHydrated(true) is reached only when a record was loaded
LoadAbsentNoHydrate ==
    /\ ~hydrated /\ store = <<>>
    /\ Render(balance, transactions, period, FALSE, FALSE, FALSE)
    /\ lastOp' = Op("hydrate", Undef)
    /\ UNCHANGED <<store, now, ops, store0, saveFailed>>

\* loadState resolved with null
LoadAbsent ==
    /\ ~hydrated /\ store = <<>>
    /\ Render(balance, transactions, period, TRUE, FALSE, FALSE)
    /\ lastOp' = Op("hydrate", Undef)
    /\ UNCHANGED <<store, now, ops, store0, saveFailed>>

\* loadState rejected (openDB or the get request failed)
LoadFail ==
    /\ ~hydrated
    /\ Render(balance, transactions, period, TRUE, FALSE, FALSE)
    /\ lastOp' = Op("loadFailed", Undef)
    /\ UNCHANGED <<store, now, ops, store0, saveFailed>>

\* ----------------------------------------------------------- operations
\* Number(rawAmount) || 0
AmountOf(rawAmount) ==
    IF Falsy(ToNumber(rawAmount)) THEN Num(0) ELSE ToNumber(rawAmount)

\* (mutant) the early return is missing
IsNoOpNever(amount) == FALSE

\* line 165: if (!amount) return
IsNoOp(amount) == Falsy(amount)

\* (mutant) every transaction is logged as a credit
TypeOfAlwaysAdd(amount) == "add"

\* line 166
TypeOf(amount) == IF amount.v >= 0 THEN "add" ELSE "sub"

addTransaction(rawAmount, reason) ==
    LET amount == AmountOf(rawAmount)
        next == Txn(newTxnId(now, ops + 1), toISOString(Inst(now)),
                    TypeOf(amount), Abs(amount.v), Trim(reason))
    IN IF IsNoOp(amount)
       THEN UNCHANGED <<balance, transactions, period, hydrated, crashed, pending>>
       ELSE Render(Plus(balance, amount.v), <<next>> \o transactions, period,
                   hydrated, TRUE, FALSE)

OnAdd(amount, reason) ==
    /\ ~crashed /\ ops < MaxOps
    /\ ops' = ops + 1
    /\ addTransaction(ToNumber(amount), reason)
    /\ lastOp' = Op("add", ToNumber(amount))
    /\ UNCHANGED <<store, now, store0, saveFailed>>

OnSub(amount, reason) ==
    /\ ~crashed /\ ops < MaxOps
    /\ ops' = ops + 1
    /\ addTransaction(Neg(ToNumber(amount)), reason)
    /\ lastOp' = Op("add", Neg(ToNumber(amount)))
    /\ UNCHANGED <<store, now, store0, saveFailed>>

\* (mutant) the log is not cleared
resetAllKeepsLog ==
    /\ ~crashed /\ ops < MaxOps
    /\ ops' = ops + 1
    /\ Render(Undef, transactions, defaultPeriod(now), hydrated, FALSE, TRUE)
    /\ lastOp' = Op("reset", Undef)
    /\ UNCHANGED <<store, now, store0, saveFailed>>

resetAll ==
    /\ ~crashed /\ ops < MaxOps
    /\ ops' = ops + 1
    /\ Render(Undef, <<>>, defaultPeriod(now), hydrated, TRUE, TRUE)
    /\ lastOp' = Op("reset", Undef)
    /\ UNCHANGED <<store, now, store0, saveFailed>>

\* BalanceInput: the value typed, then the button
handleSave(value) ==
    /\ ~crashed /\ ops < MaxOps
    /\ ops' = ops + 1
    /\ Render(IF Falsy(ToNumber(value)) THEN Undef ELSE ToNumber(value),
              transactions, period, hydrated, FALSE, FALSE)
    /\ lastOp' = Op("setBalance", value)
    /\ UNCHANGED <<store, now, store0, saveFailed>>

\* PeriodSelector: RangePicker onChange
onRangeChange(vals) ==
    /\ ~crashed /\ ops < MaxOps
    /\ ops' = ops + 1
    /\ Render(balance, transactions,
              IF Len(vals) = 2 THEN vals ELSE defaultPeriod(now),
              hydrated, FALSE, TRUE)
    /\ lastOp' = Op("setPeriod", Undef)
    /\ UNCHANGED <<store, now, store0, saveFailed>>

\* -------------------------------------------------------------- saveState
\* (mutant) the newest save in flight completes first
SaveCompleteNewestFirst ==
    /\ pending # <<>>
    /\ store' = <<pending[Len(pending)]>>
    /\ pending' = SubSeq(pending, 1, Len(pending) - 1)
    /\ UNCHANGED <<balance, transactions, period, hydrated, crashed, now, lastOp, ops, store0, saveFailed>>

\* IndexedDB serves open requests and read-write transactions on one object
\* store in the order they were made: the oldest save in flight ends first.
SaveComplete ==
    /\ pending # <<>>
    /\ store' = <<Head(pending)>>
    /\ pending' = Tail(pending)
    /\ UNCHANGED <<balance, transactions, period, hydrated, crashed, now, lastOp, ops, store0, saveFailed>>

\* (mutant) a failed save is issued again
SaveFailRetries ==
    /\ pending # <<>>
    /\ pending' = Append(Tail(pending), Head(pending))
    /\ saveFailed' = TRUE
    /\ UNCHANGED <<balance, transactions, period, hydrated, crashed, store, now, lastOp, ops, store0>>

\* the put transaction of the oldest saveState in flight aborted, or its
\* openDB failed; the rejection is caught and dropped
SaveFail ==
    /\ pending # <<>>
    /\ pending' = Tail(pending)
    /\ saveFailed' = TRUE
    /\ UNCHANGED <<balance, transactions, period, hydrated, crashed, store, now, lastOp, ops, store0>>

Next ==
    \/ LoadSnapshot
    \/ LoadAbsent
    \/ LoadFail
    \/ \E a \in AmountInputs, r \in ReasonInputs : OnAdd(a, r)
    \/ \E a \in AmountInputs, r \in ReasonInputs : OnSub(a, r)
    \/ resetAll
    \/ \E v \in BalanceInputs : handleSave(v)
    \/ \E v \in RangeInputs : onRangeChange(v)
    \/ SaveComplete
    \/ SaveFail

Spec == Init /\ [][Next]_vars

\* the get request of loadState settles: the awaited promise resolves unless
\* it is rejected, and the continuation of the hydrate effect then runs
LiveSpec == Spec /\ WF_vars(LoadSnapshot \/ LoadAbsent)

\* ------------------------------------------- the memoised values on inputs
\* A hydrated session at rest before its last operation: any clock reading
\* of the first months, any period the RangePicker can yield, any balance;
\* the store holds the save of that state.
ClockReadings == 0 .. (MonthLen + MonthLen + DayLen)
EnginePeriods ==
    {<<Inst(x[1]), Inst(x[2])>> :
        x \in {y \in ClockReadings \X ClockReadings : y[1] <= y[2]}}
EngineBalances == {Undef} \cup {Num(n) : n \in 0 .. MaxAmt + 1}

EngineInit ==
    /\ now \in ClockReadings
    /\ balance \in EngineBalances
    /\ transactions = <<>>
    /\ period \in EnginePeriods
    /\ hydrated = TRUE
    /\ crashed = FALSE
    /\ store = <<SnapshotOf(balance, transactions, period)>>
    /\ store0 = <<>>
    /\ pending = <<>>
    /\ lastOp = Op("hydrate", Undef)
    /\ ops = MaxOps - 1
    /\ saveFailed = FALSE

EngineNext ==
    \/ \E v \in BalanceInputs : handleSave(v)
    \/ \E v \in RangeInputs : onRangeChange(v)

EngineSpec == EngineInit /\ [][EngineNext]_vars

\* ================================================================ claims
\* a step that runs a user operation
UserStep == ops' = ops + 1

\* C1: no save starts before hydration has completed: while the hydrated flag
\* is false no save is in flight and the store is as the session found it,
\* whatever state changes have triggered the persist effect.
C1_NoSaveBeforeHydration ==
    ~hydrated => pending = <<>> /\ store = store0

\* a transaction was recorded, so the persist effect ran, before hydration
C1_Witness ==
    ~hydrated /\ lastOp.op = "add" /\ transactions # <<>> /\ store0 # <<>>

\* C2: recordTransaction(A) with A # 0 on a set balance B leaves the balance
\* B + A and the log one new transaction of magnitude |A| and kind 'add' for
\* A > 0, 'sub' for A < 0, followed by the prior log.
C2_RecordTransaction ==
    [][(UserStep /\ lastOp'.op = "add" /\ lastOp'.arg.kind = "num"
            /\ lastOp'.arg.v # 0 /\ balance.kind = "num")
        => LET A == lastOp'.arg.v
           IN /\ balance' = Num(balance.v + A)
              /\ Len(transactions') = Len(transactions) + 1
              /\ Head(transactions').type = (IF A > 0 THEN "add" ELSE "sub")
              /\ Head(transactions').amount = (IF A > 0 THEN A ELSE 0 - A)
              /\ Tail(transactions') = transactions]_vars

\* a debit was recorded on a set balance in front of a log of two
C2_Witness ==
    /\ lastOp.op = "add" /\ lastOp.arg.kind = "num" /\ lastOp.arg.v < 0
    /\ balance.kind = "num"
    /\ Len(transactions) = 3
    /\ transactions[1].type = "sub"

\* C3: recordTransaction with a zero or non-numeric amount changes nothing:
\* balance, log and period stay, no transaction is made, no save is started.
C3_NoOpTransaction ==
    [][(UserStep /\ lastOp'.op = "add" /\ Falsy(lastOp'.arg))
        => UNCHANGED <<balance, transactions, period, hydrated, crashed,
                       pending, store>>]_vars

\* a non-numeric amount was submitted after hydration, on a set balance
C3_Witness ==
    /\ hydrated /\ lastOp = Op("add", NaNv)
    /\ balance.kind = "num" /\ transactions # <<>>

C5_RoundTrip ==
    LET s == SnapshotOf(balance, transactions, period)
    IN (/\ hydrated /\ ~toISOPeriodThrows(period)
        /\ (store = <<s>> \/ \E i \in 1..Len(pending) : pending[i] = s))
       => \A t0 \in InitTimes :
            /\ HydratedBalance(s, Undef) = balance
            /\ HydratedTransactions(s, <<>>) = transactions
            /\ HydratedPeriod(s, defaultPeriod(t0), t0) = period

\* the store holds the save of a state the user made: a set balance, a log
\* and a period that ends inside a day
C5_Witness ==
    /\ hydrated /\ ops > 0 /\ store # store0
    /\ store = <<SnapshotOf(balance, transactions, period)>>
    /\ balance.kind = "num" /\ transactions # <<>>
    /\ period[2].valid /\ period[2].t % DayLen # 0

\* a stored period that is a pair of ISO instant strings
IsIsoPair(p) == p.kind = "pair" /\ p.a.kind = "iso" /\ p.b.kind = "iso"

\* C6 (as claimed): after hydration from a record whose period is not a pair
\* of ISO strings, with no user operation before it, the period is the
\* current-month default, and the balance and the log are the record's when
\* those are well-formed.
C6_CorruptPeriodFallsBack ==
    (/\ lastOp.op = "hydrate" /\ ops = 0
     /\ store0 # <<>> /\ ~IsIsoPair(store0[1].period))
    => /\ period = <<Inst(StartOfMonth(now)), Inst(EndOfMonth(now))>>
       /\ (store0[1].balance.kind \in {"num", "nan"}
              => balance = store0[1].balance)
       /\ (store0[1].transactions.kind = "array"
              => transactions = store0[1].transactions.items)

IsSuffix(s, t) ==
    Len(s) <= Len(t) /\ SubSeq(t, Len(t) - Len(s) + 1, Len(t)) = s

\* C7 (as claimed): in every step other than reset the log before the step
\* is an unchanged suffix of the log after it.
C7_LogOnlyGrowsByPrepending ==
    [][~(UserStep /\ lastOp'.op = "reset")
        => IsSuffix(transactions, transactions')]_vars

WellFormedTxn(x) == x.amount > 0 /\ x.type \in {"add", "sub"}
AllWellFormed(log) == \A i \in 1..Len(log) : WellFormedTxn(log[i])

\* C8: starting from an empty store, every transaction in the log, in every
\* save in flight and in the stored record has a magnitude above 0 and the
\* type 'add' or 'sub'.
C8_TransactionsWellFormed ==
    store0 = <<>>
    => /\ AllWellFormed(transactions)
       /\ \A i \in 1..Len(pending) : AllWellFormed(pending[i].transactions.items)
       /\ (store # <<>> => AllWellFormed(store[1].transactions.items))

\* from an empty store, a debit and a credit were recorded and saved
C8_Witness ==
    /\ store0 = <<>> /\ store # <<>>
    /\ Len(store[1].transactions.items) = 2
    /\ store[1].transactions.items[1].type # store[1].transactions.items[2].type

\* C9: reset yields balance unset, an empty log and the current-month default
\* period; a reset that follows a reset leaves these three as they are.
C9_Reset ==
    [][(UserStep /\ lastOp'.op = "reset")
        => /\ balance' = Undef
           /\ transactions' = <<>>
           /\ period' = <<Inst(StartOfMonth(now)), Inst(EndOfMonth(now))>>
           /\ (lastOp.op = "reset"
                 => <<balance', transactions', period'>>
                      = <<balance, transactions, period>>)]_vars

\* two resets in a row after hydration from a stored balance and log: three
\* saves in flight, the last two of the same default state
C9_Witness ==
    /\ hydrated /\ ops = 2 /\ lastOp.op = "reset" /\ Len(pending) = 3
    /\ pending[1].balance.kind = "num"
    /\ pending[1].transactions.items # <<>>
    /\ pending[2].balance = Undef /\ pending[2].transactions.items = <<>>
    /\ pending[3] = pending[2]

\* C10 (as claimed): setStartingBalance(amount) sets the balance to the amount
\* for every non-negative number, to unset only for an invalid input, and
\* leaves the log and the period as they are.
C10_SetStartingBalance ==
    [][(UserStep /\ lastOp'.op = "setBalance")
        => /\ (lastOp'.arg.kind = "num" /\ lastOp'.arg.v >= 0
                 => balance' = lastOp'.arg)
           /\ (balance' = Undef => lastOp'.arg.kind # "num")
           /\ UNCHANGED <<transactions, period>>]_vars

DayOf(t) == t \div DayLen
IsValidPeriod(p) ==
    Len(p) = 2 /\ p[1].valid /\ p[2].valid /\ p[1].t <= p[2].t

\* C11: for every period P (start <= end) and every day T, daysRemaining is
\* never negative, is 0 when T is after the day of P.end, and otherwise is
\* the number of days from max(T, P.start) to P.end, both ends counted.
C11_DaysRemaining ==
    IsValidPeriod(period) =>
        LET T == DayOf(now)
            S == DayOf(period[1].t)
            E == DayOf(period[2].t)
        IN  /\ daysLeft.kind = "num"
            /\ daysLeft.v >= 0
            /\ (T > E => daysLeft.v = 0)
            /\ (T <= E => daysLeft.v = E - (IF T > S THEN T ELSE S) + 1)

\* C11 witness: a period picked by the user that starts after today and
\* spans more than one day, shown with its remaining days
C11_Witness ==
    /\ lastOp.op = "setPeriod"
    /\ IsValidPeriod(period)
    /\ DayOf(now) < DayOf(period[1].t)
    /\ DayOf(period[1].t) < DayOf(period[2].t)
    /\ daysLeft = Num(DayOf(period[2].t) - DayOf(period[1].t) + 1)

\* C14: for every balance B >= 0 and whole number D of remaining days, the
\* daily limit is 0 when D = 0 and, when D > 0, the two-decimal number
\* nearest to B / D.
C14_DailyLimit ==
    (balance.kind = "num" /\ balance.v >= 0 /\ daysLeft.kind = "num") =>
        /\ dailyLimit.kind = "num"
        /\ (daysLeft.v = 0 => dailyLimit.hundredths = 0)
        /\ (daysLeft.v > 0 =>
              2 * Abs(dailyLimit.hundredths * daysLeft.v - 100 * balance.v)
                <= daysLeft.v)

\* C14 witness: a balance was set that the remaining days do not divide, and
\* the limit is rounded up
C14_Witness ==
    /\ lastOp.op = "setBalance"
    /\ balance.kind = "num" /\ balance.v > 0
    /\ daysLeft.kind = "num" /\ daysLeft.v > 0
    /\ (100 * balance.v) % daysLeft.v # 0
    /\ dailyLimit.hundredths * daysLeft.v > 100 * balance.v

\* a user operation that changes the state: a transaction of a non-zero
\* amount, a reset, a new period, or a balance other than the current one
Mutation ==
    /\ UserStep
    /\ \/ lastOp'.op = "add" /\ ~Falsy(lastOp'.arg)
       \/ lastOp'.op \in {"reset", "setPeriod"}
       \/ lastOp'.op = "setBalance" /\ balance' # balance

\* C12: a failed save is swallowed: the step in which a save first fails leaves
\* balance, log and period (and the store) as they were and takes that save
\* out of flight without issuing it again; every later mutation is still
\* applied and still starts a save of the state it leaves.
C12_FailedSaveSwallowed ==
    [][/\ (~saveFailed /\ saveFailed'
             => /\ UNCHANGED <<balance, transactions, period, hydrated,
                               crashed, store>>
                /\ pending' = Tail(pending))
       /\ (saveFailed /\ Mutation
             => /\ pending' = Append(pending,
                       SnapshotOf(balance', transactions', period'))
                /\ (lastOp'.op = "add"
                      => /\ Len(transactions') = Len(transactions) + 1
                         /\ balance' = Plus(balance, lastOp'.arg.v)))]_vars

\* C12 witness: a transaction recorded after a save had failed, its save in
\* flight
C12_Witness ==
    /\ saveFailed /\ ops > 0
    /\ lastOp.op = "add" /\ ~Falsy(lastOp.arg)
    /\ balance.kind = "num"
    /\ pending # <<>>
    /\ pending[Len(pending)] = SnapshotOf(balance, transactions, period)

C13_HydrationCompletes ==
    /\ <>hydrated
    /\ [][(~hydrated /\ hydrated' /\ (store = <<>> \/ lastOp'.op = "loadFailed"))
            => /\ UNCHANGED <<balance, transactions, period>>
               /\ (ops = 0 => /\ balance' = Undef
                              /\ transactions' = <<>>
                              /\ period' = defaultPeriod(now))]_vars

\* C13 witness: the load failed over a stored record and the flag is set,
\* with the state at its defaults
C13_Witness ==
    /\ hydrated /\ lastOp.op = "loadFailed" /\ store0 # <<>>
    /\ balance = Undef /\ transactions = <<>> /\ period = defaultPeriod(now)

\* the snapshot this program wrote in an earlier session
WrittenSnapshot == Snapshot(BaseBalance, BaseTransactions, BasePeriod)

\* C15 (as claimed): when the store holds a snapshot at startup and the user
\* runs no operation, every save in flight and the store itself carry the
\* balance, transactions and period of that snapshot, also after a failed
\* load.
C15_SnapshotNotClobbered ==
    (store0 = <<WrittenSnapshot>> /\ ops = 0)
        => /\ store = store0
           /\ \A i \in 1 .. Len(pending) : pending[i] = store0[1]

\* C17 (as claimed): the balance in memory, in every save in flight and in
\* the store is never NaN.
C17_BalanceNeverNaN ==
    /\ balance.kind # "nan"
    /\ \A i \in 1 .. Len(pending) : pending[i].balance.kind # "nan"
    /\ (store # <<>> => store[1].balance.kind # "nan")

\* sum of the 'add' magnitudes minus sum of the 'sub' magnitudes of a log
RECURSIVE Net(_)
Net(log) ==
    IF log = <<>> THEN 0
    ELSE (IF Head(log).type = "add" THEN Head(log).amount
          ELSE IF Head(log).type = "sub" THEN 0 - Head(log).amount
          ELSE 0) + Net(Tail(log))

\* C18: setStartingBalance(S) with S > 0 leaves the balance S and the log as
\* it is, and every recordTransaction on a numeric balance prepends to the
\* log and changes the balance by exactly what it changes the log's net sum
\* (adds minus subs); so after S was set the balance is S plus the net sum of
\* the transactions prepended since.
C18_BalanceFollowsLog ==
    [][/\ (UserStep /\ lastOp'.op = "setBalance"
             /\ lastOp'.arg.kind = "num" /\ lastOp'.arg.v > 0)
          => (balance' = lastOp'.arg /\ transactions' = transactions)
       /\ (UserStep /\ lastOp'.op = "add" /\ balance.kind = "num")
          => /\ balance'.kind = "num"
             /\ IsSuffix(transactions, transactions')
             /\ balance'.v - Net(transactions')
                  = balance.v - Net(transactions)
       /\ (UserStep /\ lastOp.op = "setBalance" /\ lastOp.arg.kind = "num"
             /\ lastOp.arg.v > 0 /\ lastOp'.op = "add")
          => balance'.v = lastOp.arg.v
                + Net(SubSeq(transactions', 1,
                             Len(transactions') - Len(transactions)))]_vars

\* C18 witness: in a session that found the store empty, a balance was set
\* and a debit recorded on it
C18_Witness ==
    /\ store0 = <<>> /\ ops = 2
    /\ lastOp.op = "add" /\ ~Falsy(lastOp.arg)
    /\ balance.kind = "num"
    /\ Len(transactions) = 1 /\ transactions[1].type = "sub"
    /\ balance.v + transactions[1].amount > 0
====
